---------------------------- MODULE Spec2Model ----------------------------
(***************************************************************************)
(* A model of the spatio-temporal pipeline of SpatioTemporal/              *)
(* spatio_temporal.py: ST._create_G, ST._g_clustering, STC._v_clustering,  *)
(* STHS._create_getis_clusters, STHS._calculate_distance and               *)
(* STHS._calculate_getis_ord, over the entities of SpatioTemporal/         *)
(* models.py.                                                              *)
(*                                                                         *)
(* Lists are sequences, objects are records, Python's None is the string   *)
(* "None".  The clustering capability (g_clustering / v_clustering) is an  *)
(* external estimator: its labels_ are a nondeterministic choice.          *)
(***************************************************************************)
EXTENDS Integers, Sequences, FiniteSets, TLC

VARIABLES
    trajs,        \* the list of Trajectory objects given to fit / _create_G
    interval,     \* self.interval
    w,            \* self.w
    a,            \* the parameter a of _calculate_getis_ord, in hundredths (0.10 is 10);
                  \* 0 before the call
    g_clustering, \* self.g_clustering with its arguments: the capability of _g_clustering
    v_clustering, \* self.v_clustering with its arguments: the capability of _v_clustering
                  \* (None until _v_clustering, its only reader, starts)
    pc,           \* position of the running call
    err,          \* the exception the call ended with, or "none"
    time_range,   \* local of _create_G
    t,            \* loop variable of _create_G
    G,            \* the list of TPartition objects built by _create_G
    K,            \* the list of lists of Cluster objects built by _g_clustering
    id,           \* the id counter of _g_clustering
    j,            \* number of partitions _g_clustering has been through
    labels_,      \* per partition, the labels_ the capability returned (<<>>: not invoked)
    fits,         \* number of calls of a capability's fit so far
    R,            \* the list R of _v_clustering
    N,            \* the list N of _v_clustering
    vlabels_,     \* per window, the labels_ the capability returned (<<>>: not invoked)
    i,            \* window index of _v_clustering / _calculate_getis_ord
    heap,         \* the GetisCluster objects, by reference (order of creation)
    GC,           \* the list of lists of references built by _create_getis_clusters
    distances,    \* the dict of dicts built by _calculate_distance
    V,            \* the list V of _calculate_getis_ord: lists of references
    k             \* number of clusters of the current window that have their Gi*

inVars == <<trajs, interval, w, a, g_clustering, v_clustering>>
gVars == <<time_range, t, G>>
kVars == <<K, id, j, labels_>>
vVars == <<R, N, vlabels_>>
hsVars == <<heap, GC, distances, V, k>>

vars == <<inVars, pc, err, gVars, kVars, fits, vVars, i, hsVars>>

None == "None"

-----------------------------------------------------------------------------
(* Bounds of the model.                                                    *)
MaxTraj == 3       \* longest trajectory list
MaxTime == 3       \* largest timestamp of a trajectory point
MaxInterval == 2   \* largest partition width
MaxW == 2          \* largest window size

-----------------------------------------------------------------------------
(* Helpers for Python built-ins.                                           *)

\* max(...) of a non-empty set of integers
SetMax(S) == CHOOSE m \in S : \A e \in S : e <= m

\* [f(e) for e in s]
Map(s, f(_)) == [n \in 1..Len(s) |-> f(s[n])]

\* sum(...) of a list of integers
RECURSIVE SumSeq(_)
SumSeq(s) == IF s = <<>> THEN 0 ELSE Head(s) + SumSeq(Tail(s))

\* the elements of s without repetition, in order of first appearance
\* (the keys of a dict filled in that order)
RECURSIVE DistinctInOrder(_)
DistinctInOrder(s) ==
    IF s = <<>> THEN <<>>
    ELSE LET h == s[Len(s)]
             init == DistinctInOrder(SubSeq(s, 1, Len(s) - 1))
         IN  IF \E n \in 1..Len(init) : init[n] = h THEN init ELSE Append(init, h)

IndexOf(s, e) == CHOOSE n \in 1..Len(s) : s[n] = e

\* [item for sublist in ss for item in sublist]
RECURSIVE Flatten(_)
Flatten(ss) == IF ss = <<>> THEN <<>> ELSE Head(ss) \o Flatten(Tail(ss))

Abs(n) == IF n < 0 THEN -n ELSE n

-----------------------------------------------------------------------------
(* models.py                                                               *)

Point(x, y) == [x |-> x, y |-> y]

TPoint(x, y, tt) == [x |-> x, y |-> y, t |-> tt]

\* Coordinates are even integers here, so the halving is exact.
Trajectory(tps, tpe, m) ==
    [tps |-> tps, tpe |-> tpe,
     m |-> IF m = None THEN Point((tpe.x + tps.x) \div 2, (tpe.y + tps.y) \div 2)
                       ELSE m]

TPartition(ts, te, tpoints) == [ts |-> ts, te |-> te, tpoints |-> tpoints]

ClusterPoint(x, y, tt, c) == [x |-> x, y |-> y, t |-> tt, c |-> c]

\* sum(...) / len(...).  The capabilities of this model only group points of
\* equal coordinates, so the quotient is exact.
Mean(vals) == SumSeq(vals) \div Len(vals)

Cluster(cid, cpoints, tt, c) ==
    [id |-> cid, cpoints |-> cpoints,
     m |-> Point(Mean(Map(cpoints, LAMBDA cp : cp.x)), Mean(Map(cpoints, LAMBDA cp : cp.y))),
     t |-> tt, c |-> c]

\* gi is <<>> for None and <<g>> for the float g
GetisCluster(cid, cpoints, tt) ==
    [id |-> cid, cpoints |-> cpoints,
     m |-> Point(Mean(Map(cpoints, LAMBDA cp : cp.x)), Mean(Map(cpoints, LAMBDA cp : cp.y))),
     t |-> tt, c |-> None,
     x |-> Len(cpoints), gi |-> <<>>, significant |-> FALSE, spot |-> None]

-----------------------------------------------------------------------------
(* The clustering capability: an estimator with fit(data) and labels_.     *)
(* Three configurations of DBSCAN on points that are either equal or       *)
(* further apart than eps: min_samples = 1 (every group of equal points is *)
(* a cluster), min_samples = 2 (a lone point is noise) and a min_samples   *)
(* no group reaches (every point is noise).  Clusters are numbered from 0  *)
(* in the order their first point appears.                                 *)

Estimators == {"DBSCAN1", "DBSCAN2", "AllNoise"}

MinSamples(est) == IF est = "DBSCAN1" THEN 1 ELSE 2

FitLabels(est, data) ==
    LET Count(p) == Cardinality({n \in 1..Len(data) : data[n] = p})
        Dense(p) == est # "AllNoise" /\ Count(p) >= MinSamples(est)
        groups == DistinctInOrder(SelectSeq(data, Dense))
    IN  [n \in 1..Len(data) |->
            IF Dense(data[n]) THEN IndexOf(groups, data[n]) - 1 ELSE -1]

-----------------------------------------------------------------------------
(* ST._create_G                                                            *)

\* the test of line 59 keeping a trajectory only where its span starts
SkippedOutsideStart(tr, t1, t2) == tr.tps.t < t1 \/ tr.tps.t >= t2

\* the test of line 59 with the trajectory's end taken as excluded
SkippedEndExclusive(tr, t1, t2) == tr.tps.t > t2 \/ tr.tpe.t <= t1

\* the test of line 59 with the partition taken half-open, as [t1, t2)
SkippedHalfOpen(tr, t1, t2) == tr.tps.t >= t2 \/ tr.tpe.t < t1

\* the test of line 59: the trajectory is skipped for partition [t1, t2)
Skipped(tr, t1, t2) == tr.tps.t > t2 \/ tr.tpe.t < t1

\* lines 57-63 with the point keeping the trajectory's own start time
PartitionPointsOwnTime(trs, t1, t2) ==
    LET kept == SelectSeq(trs, LAMBDA tr : ~Skipped(tr, t1, t2))
    IN  Map(kept, LAMBDA tr : TPoint(tr.m.x, tr.m.y, tr.tps.t))

\* lines 57-63: the points of the partition [t1, t2), in trajectory order
PartitionPoints(trs, t1, t2) ==
    LET kept == SelectSeq(trs, LAMBDA tr : ~Skipped(tr, t1, t2))
    IN  Map(kept, LAMBDA tr : TPoint(tr.m.x, tr.m.y, t1))

\* lines 55-64: the partition appended by the iteration with loop value tt
MakePartition(trs, tt, width) ==
    LET t1 == tt
        t2 == tt + width
    IN  TPartition(t1, t2, PartitionPoints(trs, t1, t2))

\* line 53: time_range = max(tr.tpe.t for tr in trajs)
TimeRange(trs) == SetMax({trs[n].tpe.t : n \in 1..Len(trs)})

\* line 54 with range() taken to include its stop value
InRangeInclusive(tt, stop) == tt <= stop

\* line 54: the loop `for t in range(0, time_range, self.interval)` goes on
InRange(tt, stop) == tt < stop

\* lines 52-53 with an empty list, had max() been given a default of 0
CreateGDefault ==
    /\ pc = "create_G"
    /\ trajs = <<>>
    /\ G' = <<>>
    /\ time_range' = 0
    /\ t' = 0
    /\ pc' = "create_G_loop"
    /\ UNCHANGED <<inVars, err, kVars, fits, vVars, i, hsVars>>

\* lines 52-53 with an empty list: max() of an empty sequence raises ValueError
CreateGRaise ==
    /\ pc = "create_G"
    /\ trajs = <<>>
    /\ pc' = "raised"
    /\ err' = "ValueError: max() arg is an empty sequence"
    /\ UNCHANGED <<inVars, gVars, kVars, fits, vVars, i, hsVars>>

\* lines 52-53: G = [], time_range = max(tr.tpe.t for tr in trajs)
CreateGBegin ==
    /\ pc = "create_G"
    /\ trajs # <<>>
    /\ G' = <<>>
    /\ time_range' = TimeRange(trajs)
    /\ t' = 0
    /\ pc' = "create_G_loop"
    /\ UNCHANGED <<inVars, err, kVars, fits, vVars, i, hsVars>>

\* lines 54-64: one iteration of `for t in range(0, time_range, self.interval)`
CreateGLoop ==
    /\ pc = "create_G_loop"
    /\ InRange(t, time_range)
    /\ G' = Append(G, MakePartition(trajs, t, interval))
    /\ t' = t + interval
    /\ UNCHANGED <<inVars, pc, err, time_range, kVars, fits, vVars, i, hsVars>>

\* lines 66-67: the range is exhausted, self.G = G; return G
CreateGReturn ==
    /\ pc = "create_G_loop"
    /\ ~InRange(t, time_range)
    /\ pc' = "G_returned"
    /\ UNCHANGED <<inVars, err, gVars, kVars, fits, vVars, i, hsVars>>

-----------------------------------------------------------------------------
(* ST._g_clustering                                                        *)

\* line 86: data = np.array([[m.x, m.y] for m in Gj.tpoints])
PointData(Gj) == Map(Gj.tpoints, LAMBDA m : <<m.x, m.y>>)

\* lines 95-102 without the `if label != -1` test of line 97
ClusterKeysWithNoise(labels) == DistinctInOrder(labels)

\* lines 95-102: the keys of the dict `clusters`, in insertion order
ClusterKeys(labels) == DistinctInOrder(SelectSeq(labels, LAMBDA l : l # -1))

\* lines 96-102: clusters[key], the rows of data labelled key, in order
ClusterData(data, labels, key) ==
    LET idx == SelectSeq([n \in 1..Len(data) |-> n], LAMBDA n : labels[n] = key)
    IN  Map(idx, LAMBDA n : data[n])

\* lines 106-109: the Cluster made of the dict entry (key, v), with identifier cid
MakeCluster(Gj, cid, key, v) ==
    Cluster(cid, Map(v, LAMBDA coords : ClusterPoint(coords[1], coords[2], Gj.ts, key)),
            Gj.ts, key)

\* lines 104-110: Kj, its clusters numbered from id0 on
MakeKj(Gj, data, labels, id0) ==
    LET keys == ClusterKeys(labels)
    IN  [p \in 1..Len(keys) |->
            MakeCluster(Gj, id0 + p - 1, keys[p], ClusterData(data, labels, keys[p]))]

\* lines 83-84 with the counter `id` kept from the call before
GClusteringBeginKeepId ==
    /\ pc = "G_returned"
    /\ K' = <<>>
    /\ j' = 0
    /\ labels_' = <<>>
    /\ pc' = "g_clustering_loop"
    /\ UNCHANGED <<inVars, err, gVars, id, fits, vVars, i, hsVars>>

\* line 202 / 372 and lines 83-84: fit hands G to _g_clustering; K = [], id = 0
GClusteringBegin ==
    /\ pc = "G_returned"
    /\ K' = <<>>
    /\ id' = 0
    /\ j' = 0
    /\ labels_' = <<>>
    /\ pc' = "g_clustering_loop"
    /\ UNCHANGED <<inVars, err, gVars, fits, vVars, i, hsVars>>

\* lines 85-111 without the test of lines 88-90: fit is called on any data
GClusteringLoopAlwaysFits ==
    /\ pc = "g_clustering_loop"
    /\ j < Len(G)
    /\ LET Gj == G[j + 1]
           data == PointData(Gj)
           labels == FitLabels(g_clustering, data)
           Kj == MakeKj(Gj, data, labels, id)
       IN  /\ fits' = fits + 1
           /\ labels_' = Append(labels_, labels)
           /\ K' = Append(K, Kj)
           /\ id' = id + Len(Kj)
    /\ j' = j + 1
    /\ UNCHANGED <<inVars, pc, err, gVars, vVars, i, hsVars>>

\* lines 85-111: one iteration of `for Gj in G`
GClusteringLoop ==
    /\ pc = "g_clustering_loop"
    /\ j < Len(G)
    /\ LET Gj == G[j + 1]
           data == PointData(Gj)
       IN  IF Len(data) = 0
           THEN /\ K' = Append(K, <<>>)
                /\ labels_' = Append(labels_, <<>>)
                /\ UNCHANGED <<id, fits>>
           ELSE LET labels == FitLabels(g_clustering, data)
                    Kj == MakeKj(Gj, data, labels, id)
                IN  /\ fits' = fits + 1
                    /\ labels_' = Append(labels_, labels)
                    /\ K' = Append(K, Kj)
                    /\ id' = id + Len(Kj)
    /\ j' = j + 1
    /\ UNCHANGED <<inVars, pc, err, gVars, vVars, i, hsVars>>

\* line 112: return K
GClusteringReturn ==
    /\ pc = "g_clustering_loop"
    /\ j >= Len(G)
    /\ pc' = "K_returned"
    /\ UNCHANGED <<inVars, err, gVars, kVars, fits, vVars, i, hsVars>>

-----------------------------------------------------------------------------
(* STC._v_clustering                                                       *)

\* line 161 / 315 with the range taken as len(K) - self.w
NumWindowsShort(n, ww) == IF n - ww > 0 THEN n - ww ELSE 0

\* line 161 / 315: the number of windows, len(K) - self.w + 1 (range() of a
\* number below 1 is empty)
NumWindows(n, ww) == IF n - ww + 1 > 0 THEN n - ww + 1 ELSE 0

\* lines 163-164 / 317 with the range taken as range(i, i + self.w - 1)
WindowShort(ks, wi, ww) == Flatten(SubSeq(ks, wi + 1, wi + ww - 1))

\* lines 163-164 / 317: the lists of ks[wi], ..., ks[wi + ww - 1] (0-based), flattened
Window(ks, wi, ww) == Flatten(SubSeq(ks, wi + 1, wi + ww))

\* line 177: Rj, the clusters of Vj whose new label is not -1, re-wrapped
MakeRj(Vj, labels) ==
    LET idx == SelectSeq([n \in 1..Len(Vj) |-> n], LAMBDA n : labels[n] # -1)
    IN  Map(idx, LAMBDA n : Cluster(n - 1, Vj[n].cpoints, Vj[n].t, labels[n]))

\* line 178 with the test of line 177 in its place
MakeNjAsRj(Vj, labels) ==
    LET idx == SelectSeq([n \in 1..Len(Vj) |-> n], LAMBDA n : labels[n] # -1)
    IN  Map(idx, LAMBDA n : Cluster(n - 1, Vj[n].cpoints, Vj[n].t, labels[n]))

\* line 178: Nj, the clusters of Vj whose new label is -1, re-wrapped
MakeNj(Vj, labels) ==
    LET idx == SelectSeq([n \in 1..Len(Vj) |-> n], LAMBDA n : labels[n] = -1)
    IN  Map(idx, LAMBDA n : Cluster(n - 1, Vj[n].cpoints, Vj[n].t, labels[n]))

\* line 203 and lines 159-160: STC.fit hands K to _v_clustering; R = [], N = []
VClusteringBegin ==
    /\ pc = "K_returned"
    /\ v_clustering' \in Estimators
    /\ R' = <<>>
    /\ N' = <<>>
    /\ vlabels_' = <<>>
    /\ i' = 0
    /\ pc' = "v_clustering_loop"
    /\ UNCHANGED <<trajs, interval, w, a, g_clustering>>
    /\ UNCHANGED <<err, gVars, kVars, fits, hsVars>>

\* lines 161-181: one iteration of `for i in range(len(K) - self.w + 1)`
VClusteringLoop ==
    /\ pc = "v_clustering_loop"
    /\ i < NumWindows(Len(K), w)
    /\ LET Vj == Window(K, i, w)
           data == Map(Vj, LAMBDA cluster : <<cluster.m.x, cluster.m.y>>)
       IN  IF Len(data) = 0
           THEN /\ R' = Append(R, <<>>)
                /\ N' = Append(N, <<>>)
                /\ vlabels_' = Append(vlabels_, <<>>)
                /\ UNCHANGED fits
           ELSE LET labels == FitLabels(v_clustering, data)
                IN  /\ fits' = fits + 1
                    /\ vlabels_' = Append(vlabels_, labels)
                    /\ R' = Append(R, MakeRj(Vj, labels))
                    /\ N' = Append(N, MakeNj(Vj, labels))
    /\ i' = i + 1
    /\ UNCHANGED <<inVars, pc, err, gVars, kVars, hsVars>>

\* line 183: return R, N
VClusteringReturn ==
    /\ pc = "v_clustering_loop"
    /\ i >= NumWindows(Len(K), w)
    /\ pc' = "RN_returned"
    /\ UNCHANGED <<inVars, err, gVars, kVars, fits, vVars, i, hsVars>>

-----------------------------------------------------------------------------
(* Floats.  A float is a fixed-point number: the integer f stands for      *)
(* f / FP.  Distances are whole multiples of ln 2 (the centroids lie on    *)
(* one meridian, one coordinate unit of latitude being ln 2 radians), so   *)
(* that exp(-e * ln 2) is the exact power of two FP / 2^e.                 *)

FP == 2^12

\* the largest r in lo..hi with r * r <= v
RECURSIVE SqrtSearch(_, _, _)
SqrtSearch(v, lo, hi) ==
    IF lo >= hi THEN lo
    ELSE LET mid == (lo + hi + 1) \div 2
         IN  IF mid * mid <= v THEN SqrtSearch(v, mid, hi) ELSE SqrtSearch(v, lo, mid - 1)

\* math.sqrt of the fixed-point number f >= 0
Sqrt(f) == SqrtSearch(f * FP, 0, 46340)

\* math.exp(-e * ln 2) for a whole e >= 0
Exp2Neg(e) == IF e > 12 THEN 0 ELSE FP \div (2^e)

\* haversine_distances of two centroids of equal longitude, in units of ln 2
Haversine(m1, m2) == Abs(m1.y - m2.y)

-----------------------------------------------------------------------------
(* STHS._create_getis_clusters                                             *)

\* line 245: the GetisCluster that wraps cluster (its third argument, the
\* parameter t of GetisCluster.__init__, is given cluster.c)
WrapCluster(cluster) == GetisCluster(cluster.id, cluster.cpoints, cluster.c)

\* lines 241-247: the objects created, in order of creation
GetisObjects(ks) == Map(Flatten(ks), WrapCluster)

\* lines 241-247: GC, each object by its reference
GetisRefs(ks) ==
    [p \in 1..Len(ks) |->
        [q \in 1..Len(ks[p]) |-> Len(Flatten(SubSeq(ks, 1, p - 1))) + q]]

\* line 373: STHS.fit hands K to _create_getis_clusters
CreateGetisClusters ==
    /\ pc = "K_returned"
    /\ heap' = GetisObjects(K)
    /\ GC' = GetisRefs(K)
    /\ pc' = "GC_returned"
    /\ UNCHANGED <<inVars, err, gVars, kVars, fits, vVars, i, distances, V, k>>

-----------------------------------------------------------------------------
(* STHS._calculate_distance                                                *)

\* lines 274-275 with the loop taken as range(i, i + self.w - 1)
HorizonShort(p, ww, n) == {q \in p..(p + ww - 2) : q <= n}

\* lines 274-275 with the loop taken as range(i - 1, i + self.w + 2)
HorizonWide(p, ww, n) == {q \in (p - 1)..(p + ww + 1) : q >= 1 /\ q <= n}

\* lines 274-275: the partitions (1-based) the loop `for j in range(i, i +
\* self.w)` reaches from partition p before GC[j] raises IndexError
Horizon(p, ww, n) == {q \in p..(p + ww - 1) : q <= n}

\* lines 267-282: the dict of dicts, keyed by cluster id
CalculateDistance(gcs, objs, ww) ==
    LET refs == {r \in 1..Len(objs) : TRUE}
        PartOf(r) == CHOOSE p \in 1..Len(gcs) : \E q \in 1..Len(gcs[p]) : gcs[p][q] = r
        Reached(r) == {rb \in refs : PartOf(rb) \in Horizon(PartOf(r), ww, Len(gcs))}
        RefOf(cid) == CHOOSE r \in refs : objs[r].id = cid
    IN  [ida \in {objs[r].id : r \in refs} |->
            [idb \in {objs[rb].id : rb \in Reached(RefOf(ida))} |->
                Haversine(objs[RefOf(ida)].m, objs[RefOf(idb)].m)]]

-----------------------------------------------------------------------------
(* STHS._calculate_getis_ord                                               *)

KeyError == -1

\* lines 307-311: weight(z, gc1, gc2), or KeyError when neither key order is stored
Weight(z, gc1, gc2, dist) ==
    IF gc2.id \in DOMAIN dist[gc1.id]
    THEN Exp2Neg((z + 1) * dist[gc1.id][gc2.id])
    ELSE IF gc1.id \in DOMAIN dist[gc2.id]
         THEN Exp2Neg((z + 1) * dist[gc2.id][gc1.id])
         ELSE KeyError

\* line 330: z = abs(gc1.t - gc2.t)
Lag(gc1, gc2) == Abs(gc1.t - gc2.t)

\* line 322: x_bar = sum(gc.x for gc in Vj) / n
XBar(Vj) == (SumSeq(Map(Vj, LAMBDA gc : gc.x)) * FP) \div Len(Vj)

\* line 323: the argument of sqrt, sum(gc.x ** 2 for gc in Vj) / n - x_bar ** 2
Variance(Vj) ==
    (SumSeq(Map(Vj, LAMBDA gc : gc.x * gc.x)) * FP) \div Len(Vj)
        - (XBar(Vj) * XBar(Vj)) \div FP

\* lines 326-335: the Gi* of gc1 = Vj[k1], or the exception the lines raise
GiStar(Vj, k1, dist) ==
    LET n == Len(Vj)
        gc1 == Vj[k1]
        x_bar == XBar(Vj)
        S == Sqrt(Variance(Vj))
        ws == [q \in 1..n |-> Weight(Lag(gc1, Vj[q]), gc1, Vj[q], dist)]
        swx == SumSeq([q \in 1..n |-> ws[q] * Vj[q].x])
        sw == SumSeq(ws)
        sw2 == SumSeq([q \in 1..n |-> (ws[q] * ws[q]) \div FP])
        num == swx - (x_bar * sw) \div FP
        spread == n * sw2 - (sw * sw) \div FP
        ratio == spread \div (n - 1)
        den == (S * Sqrt(ratio)) \div FP
        quot == (Abs(num) * FP) \div den
    IN  IF \E q \in 1..n : ws[q] = KeyError THEN [err |-> "KeyError", gi |-> 0]
        ELSE IF n - 1 = 0 THEN [err |-> "ZeroDivisionError", gi |-> 0]
        ELSE IF spread < 0 THEN [err |-> "ValueError: math domain error", gi |-> 0]
        ELSE IF den = 0 THEN [err |-> "ZeroDivisionError", gi |-> 0]
        ELSE [err |-> "none", gi |-> IF num < 0 THEN -quot ELSE quot]

\* lines 336-341: the critical value in hundredths, 0 when a is none of the three
Critical(sig) ==
    CASE sig = 10 -> 165
      [] sig = 5 -> 196
      [] sig = 1 -> 258
      [] OTHER -> 0

\* lines 335 and 345-350: gc with its Gi* stored and its classification
Classified(gc, gi, critical) ==
    LET scored == [gc EXCEPT !.gi = <<gi>>]
    IN  IF gi * 100 <= -(critical * FP)
        THEN [scored EXCEPT !.significant = TRUE, !.spot = "Cold"]
        ELSE IF gi * 100 >= critical * FP
             THEN [scored EXCEPT !.significant = TRUE, !.spot = "Hot"]
             ELSE scored

\* the significance levels tried, in hundredths: the three of the code and another
AValues == {10, 5, 1, 7}

\* line 374, line 305 and line 314: STHS.fit hands GC and its a to
\* _calculate_getis_ord; distances = self._calculate_distance(GC); V = []
GetisBegin ==
    /\ pc = "GC_returned"
    /\ a' \in AValues
    /\ distances' = CalculateDistance(GC, heap, w)
    /\ V' = <<>>
    /\ i' = 0
    /\ k' = 0
    /\ pc' = "getis_loop"
    /\ UNCHANGED <<trajs, interval, w, g_clustering, v_clustering>>
    /\ UNCHANGED <<err, gVars, kVars, fits, vVars, heap, GC>>

\* lines 315-323: the head of one iteration of `for i in range(len(GC) - self.w + 1)`
GetisWindow ==
    /\ pc = "getis_loop"
    /\ i < NumWindows(Len(GC), w)
    /\ LET Vj == Window(GC, i, w)
       IN  IF Len(Vj) = 0
           THEN /\ V' = Append(V, Vj)
                /\ i' = i + 1
                /\ UNCHANGED <<pc, err, k>>
           ELSE IF Variance(Map(Vj, LAMBDA r : heap[r])) < 0
                THEN /\ pc' = "raised"
                     /\ err' = "ValueError: math domain error"
                     /\ UNCHANGED <<V, i, k>>
                ELSE /\ pc' = "getis_inner"
                     /\ k' = 0
                     /\ UNCHANGED <<V, i, err>>
    /\ UNCHANGED <<inVars, gVars, kVars, fits, vVars, heap, GC, distances>>

\* lines 325-350: one iteration of `for gc1 in Vj`
GetisInner ==
    /\ pc = "getis_inner"
    /\ k < Len(Window(GC, i, w))
    /\ LET Vj == Window(GC, i, w)
           ref == Vj[k + 1]
           res == GiStar(Map(Vj, LAMBDA r : heap[r]), k + 1, distances)
       IN  IF res.err # "none"
           THEN /\ pc' = "raised"
                /\ err' = res.err
                /\ UNCHANGED <<heap, k>>
           ELSE IF Critical(a) = 0
                THEN /\ heap' = [heap EXCEPT ![ref].gi = <<res.gi>>]
                     /\ pc' = "raised"
                     /\ err' = "ValueError: 'a' must be 0.10, 0.05 or 0.01."
                     /\ UNCHANGED k
                ELSE /\ heap' = [heap EXCEPT ![ref] = Classified(heap[ref], res.gi, Critical(a))]
                     /\ k' = k + 1
                     /\ UNCHANGED <<pc, err>>
    /\ UNCHANGED <<inVars, gVars, kVars, fits, vVars, i, GC, distances, V>>

\* line 351: V.append(Vj)
GetisWindowEnd ==
    /\ pc = "getis_inner"
    /\ k >= Len(Window(GC, i, w))
    /\ V' = Append(V, Window(GC, i, w))
    /\ i' = i + 1
    /\ pc' = "getis_loop"
    /\ UNCHANGED <<inVars, err, gVars, kVars, fits, vVars, heap, GC, distances, k>>

\* line 353: return V
GetisReturn ==
    /\ pc = "getis_loop"
    /\ i >= NumWindows(Len(GC), w)
    /\ pc' = "V_returned"
    /\ UNCHANGED <<inVars, err, gVars, kVars, fits, vVars, i, hsVars>>

-----------------------------------------------------------------------------
(* Inputs.                                                                 *)

SeqsUpTo(S, n) == UNION {[1..q -> S] : q \in 0..n}

\* the state of an object before any of its methods ran
Fresh ==
    /\ pc = "create_G"
    /\ err = "none"
    /\ time_range = 0
    /\ t = 0
    /\ G = <<>>
    /\ K = <<>>
    /\ id = 0
    /\ j = 0
    /\ labels_ = <<>>
    /\ fits = 0
    /\ R = <<>>
    /\ N = <<>>
    /\ vlabels_ = <<>>
    /\ i = 0
    /\ heap = <<>>
    /\ GC = <<>>
    /\ distances = <<>>
    /\ V = <<>>
    /\ k = 0

\* Trajectories of _create_G on its own: from a start point at the origin to
\* an end point that differs from one time span to the other (so that a
\* midpoint tells which trajectory it comes from), with start.t <= end.t.
SpanTraj(ts, te) == Trajectory(TPoint(0, 0, ts), TPoint(2 * ts, 2 * te + 2, te), None)

TrajInputs == {SpanTraj(ts, te) : ts \in 0..MaxTime, te \in 0..MaxTime}

ValidTraj(tr) == tr.tps.t <= tr.tpe.t

\* the example of the specification: start.t = 5, end.t = 25, interval = 10
ExampleTraj == SpanTraj(5, 25)

InitG ==
    /\ \/ /\ trajs \in SeqsUpTo({tr \in TrajInputs : ValidTraj(tr)}, MaxTraj)
          /\ interval \in 1..MaxInterval
       \/ /\ trajs = <<ExampleTraj>>
          /\ interval = 10
    /\ w = 1
    /\ a = 0
    /\ g_clustering = "AllNoise"
    /\ v_clustering = None
    /\ Fresh

NextG == CreateGRaise \/ CreateGBegin \/ CreateGLoop \/ CreateGReturn

\* ST._create_G on its own
SpecG == InitG /\ [][NextG]_vars

\* Trajectories of STC.fit: at one of the two sites, over the whole time
\* range, or of zero-length span at its start or at its end, so that a
\* partition between the two holds no point.
StcTrajs ==
    {Trajectory(TPoint(0, site, span[1]), TPoint(0, site, span[2]), None) :
        span \in {<<0, 0>>, <<0, MaxTime>>, <<MaxTime, MaxTime>>}, site \in {0, 2}}

\* the calls of _g_clustering on one partition list
MaxCalls == 2

\* the calls of fit that one call of _g_clustering makes on parts
FitCalls(parts) == Cardinality({p \in 1..Len(parts) : parts[p].tpoints # <<>>})

\* line 202, once more: _g_clustering is called again on the same G
GClusteringAgain ==
    /\ pc = "K_returned"
    /\ fits < MaxCalls * FitCalls(G)
    /\ pc' = "G_returned"
    /\ UNCHANGED <<inVars, err, gVars, kVars, fits, vVars, i, hsVars>>

InitSTC ==
    /\ trajs \in {trs \in SeqsUpTo(StcTrajs, MaxTraj) :
                    \A n \in 1..(Len(trs) - 1) :
                        <<trs[n].tps.t, trs[n].tpe.t>> # <<trs[n + 1].tps.t, trs[n + 1].tpe.t>>
                        => trs[n].tps.t + trs[n].tpe.t < trs[n + 1].tps.t + trs[n + 1].tpe.t}
    /\ interval \in 1..MaxInterval
    /\ w \in 1..MaxW
    /\ a = 0
    /\ g_clustering \in Estimators
    /\ v_clustering = None
    /\ Fresh

NextSTC ==
    \/ CreateGRaise \/ CreateGBegin \/ CreateGLoop \/ CreateGReturn
    \/ GClusteringBegin \/ GClusteringLoop \/ GClusteringReturn \/ GClusteringAgain
    \/ VClusteringBegin \/ VClusteringLoop \/ VClusteringReturn

\* STC.fit, with _g_clustering called up to MaxCalls times
SpecSTC == InitSTC /\ [][NextSTC]_vars

\* Trajectories of the whole pipeline: they start at time 0 and stay at one
\* of two latitudes of the meridian 0; a list is kept in order of end time.
Sites == {0, 2}

FitTrajs ==
    {Trajectory(TPoint(0, site, 0), TPoint(0, site, te), None) :
        te \in 0..MaxTime, site \in Sites}

Rank(tr) == tr.tpe.t * 3 + tr.m.y

Ordered(trs) == \A n \in 1..(Len(trs) - 1) : Rank(trs[n]) <= Rank(trs[n + 1])

FitInputs == {trs \in SeqsUpTo(FitTrajs, MaxTraj) : Ordered(trs)}

Init ==
    /\ trajs \in FitInputs
    /\ interval \in 1..MaxInterval
    /\ w \in 1..MaxW
    /\ a = 0
    /\ g_clustering \in Estimators
    /\ v_clustering = None
    /\ Fresh

\* STC.fit (lines 201-204) is _create_G, _g_clustering, _v_clustering;
\* STHS.fit (lines 371-375) is _create_G, _g_clustering,
\* _create_getis_clusters, _calculate_getis_ord.
Next ==
    \/ CreateGRaise \/ CreateGBegin \/ CreateGLoop \/ CreateGReturn
    \/ GClusteringBegin \/ GClusteringLoop \/ GClusteringReturn
    \/ VClusteringBegin \/ VClusteringLoop \/ VClusteringReturn
    \/ CreateGetisClusters
    \/ GetisBegin \/ GetisWindow \/ GetisInner \/ GetisWindowEnd \/ GetisReturn

\* fit of an STC or of an STHS object
Spec == Init /\ [][Next]_vars

-----------------------------------------------------------------------------
(* Properties of ST._create_G                                              *)

\* the partitions are consecutive ranges of one width, the first from 0
Tiled(parts, width) ==
    \A p \in 1..Len(parts) :
        /\ parts[p].ts = (IF p = 1 THEN 0 ELSE parts[p - 1].te)
        /\ parts[p].te = parts[p].ts + width

\* the end of the range the partitions cover together
CoveredEnd(parts) == IF parts = <<>> THEN 0 ELSE parts[Len(parts)].te

MaxEnd == SetMax({trajs[n].tpe.t : n \in 1..Len(trajs)})

\* C3 as stated: the partitions returned by _create_G are consecutive ranges
\* [ts, te) of width interval from 0 on, and their union is exactly
\* [0, max end.t).
C3_UnionIsExactlyMaxEnd ==
    pc = "G_returned" => Tiled(G, interval) /\ CoveredEnd(G) = MaxEnd

\* C3 amended: the partitions returned by _create_G are consecutive ranges
\* [ts, te) of width interval from 0 on, and their union is [0, E) for the
\* least multiple E of interval that is not below max end.t: it contains
\* [0, max end.t) and passes it by less than interval.
C3_TilesUpToNextMultiple ==
    pc = "G_returned" =>
        /\ Tiled(G, interval)
        /\ CoveredEnd(G) % interval = 0
        /\ CoveredEnd(G) >= MaxEnd
        /\ CoveredEnd(G) - interval < MaxEnd

\* a returned partition list of several partitions that passes max end.t
C3_Witness ==
    /\ pc = "G_returned"
    /\ Len(G) >= 2
    /\ CoveredEnd(G) > MaxEnd

\* the time ranges [tps.t, tpe.t] and [lo, hi] have a time in common
Intersects(tr, lo, hi) == \E u \in lo..hi : tr.tps.t <= u /\ u <= tr.tpe.t

\* the trajectories (by index) whose span meets the closed range of part
Meeting(part) ==
    SelectSeq([n \in 1..Len(trajs) |-> n], LAMBDA n : Intersects(trajs[n], part.ts, part.te))

\* C4: every partition [t1, t2) built by _create_G holds exactly one midpoint
\* for each trajectory with NOT (start.t > t2 OR end.t < t1), that is whose
\* [start.t, end.t] meets [t1, t2], in trajectory order, and no other point;
\* the trajectory 5..25 with interval 10 is in every partition produced.
C4_PointsAreTheMeetingTrajectories ==
    /\ \A p \in 1..Len(G) :
          LET idx == Meeting(G[p])
          IN  /\ Len(G[p].tpoints) = Len(idx)
              /\ \A q \in 1..Len(idx) :
                    /\ G[p].tpoints[q].x = trajs[idx[q]].m.x
                    /\ G[p].tpoints[q].y = trajs[idx[q]].m.y
    /\ pc = "G_returned" /\ trajs = <<ExampleTraj>> /\ interval = 10 =>
          /\ Len(G) = 3
          /\ \A p \in 1..3 : Len(G[p].tpoints) = 1

\* a partition that holds the first and the third of three different
\* trajectories, in that order, and not the second
C4_Witness ==
    /\ pc = "G_returned"
    /\ Len(trajs) = 3
    /\ trajs[1].m # trajs[3].m
    /\ \E p \in 1..Len(G) :
          /\ Meeting(G[p]) = <<1, 3>>
          /\ G[p].tpoints[1].x = trajs[1].m.x
          /\ G[p].tpoints[2].x = trajs[3].m.x

-----------------------------------------------------------------------------
(* Properties of ST._create_G with no trajectory and of ST._g_clustering   *)

\* C9: with an empty trajectory sequence _create_G (and so STC.fit and
\* STHS.fit) ends in an error: no partition list is returned, no later stage
\* is entered and the clustering capability is never invoked.
C9_EmptyInputRaises ==
    trajs = <<>> =>
        /\ pc \in {"create_G", "raised"}
        /\ pc = "raised" => err = "ValueError: max() arg is an empty sequence"
        /\ G = <<>>
        /\ fits = 0

\* the call with no trajectory has ended, in the error
C9_Witness ==
    /\ trajs = <<>>
    /\ pc = "raised"
    /\ err = "ValueError: max() arg is an empty sequence"

\* the positions of labels that hold label
Labelled(labels, label) ==
    SelectSeq([n \in 1..Len(labels) |-> n], LAMBDA n : labels[n] = label)

\* C10: for every partition G[j] with at least one point, K[j] holds exactly
\* one Cluster per distinct non-noise label the capability gave the
\* partition's points; its members are exactly the points given that label,
\* each tagged with it, its timestamp is the partition's ts, and no point
\* labelled -1 is a member of any cluster of K.
C10_OneClusterPerNonNoiseLabel ==
    \A p \in 1..Len(K) :
        Len(G[p].tpoints) > 0 =>
            LET labels == labels_[p]
                keys == {labels[n] : n \in 1..Len(labels)} \ {-1}
            IN  /\ Len(labels) = Len(G[p].tpoints)
                /\ Len(K[p]) = Cardinality(keys)
                /\ {K[p][q].c : q \in 1..Len(K[p])} = keys
                /\ \A q \in 1..Len(K[p]) :
                      LET cluster == K[p][q]
                          idx == Labelled(labels, cluster.c)
                      IN  /\ cluster.t = G[p].ts
                          /\ Len(cluster.cpoints) = Len(idx)
                          /\ \A r \in 1..Len(idx) :
                                cluster.cpoints[r] =
                                    ClusterPoint(G[p].tpoints[idx[r]].x, G[p].tpoints[idx[r]].y,
                                                 G[p].ts, cluster.c)
                          /\ \A r \in 1..Len(cluster.cpoints) : cluster.cpoints[r].c # -1

\* a partition whose points got a noise label and a label shared by two points
C10_Witness ==
    \E p \in 1..Len(K) :
        /\ \E n \in 1..Len(labels_[p]) : labels_[p][n] = -1
        /\ \E q \in 1..Len(K[p]) : Len(K[p][q].cpoints) >= 2

-----------------------------------------------------------------------------
(* Properties of STC._v_clustering and of the number of windows            *)

\* the entries of a list of re-wrapped clusters made from position n of Vj
Wrapped(list, n) == {q \in 1..Len(list) : list[q].id = n - 1}

\* C5: for every window i of _v_clustering with a non-empty Vj, every cluster
\* of Vj appears exactly once in R[i] or N[i] and never in both: in R[i] when
\* its window-level label is not -1, in N[i] when it is -1; the re-wrapped
\* cluster carries the new label and keeps the member points and timestamp.
\* When every label is -1, R[i] is empty and N[i] holds all of Vj.
C5_WindowSplitsIntoRAndN ==
    \A p \in 1..Len(R) :
        LET Vj == Window(K, p - 1, w)
            labels == vlabels_[p]
        IN  Len(Vj) > 0 =>
                /\ Len(labels) = Len(Vj)
                /\ Len(R[p]) + Len(N[p]) = Len(Vj)
                /\ \A n \in 1..Len(Vj) :
                      LET home == IF labels[n] # -1 THEN R[p] ELSE N[p]
                          other == IF labels[n] # -1 THEN N[p] ELSE R[p]
                      IN  /\ Cardinality(Wrapped(home, n)) = 1
                          /\ Wrapped(other, n) = {}
                          /\ \A q \in Wrapped(home, n) :
                                /\ home[q].c = labels[n]
                                /\ home[q].cpoints = Vj[n].cpoints
                                /\ home[q].t = Vj[n].t
                /\ (\A n \in 1..Len(labels) : labels[n] = -1) =>
                      R[p] = <<>> /\ Len(N[p]) = Len(Vj)

\* a window whose clusters went partly to R and partly to N
C5_Witness ==
    \E p \in 1..Len(R) : Len(R[p]) >= 2 /\ Len(N[p]) >= 1

\* the number of window results for n cluster lists and window size ww
Expected(n, ww) == IF ww > n THEN 0 ELSE n - ww + 1

\* C6: with n per-partition cluster lists and window size w >= 1,
\* _v_clustering returns R and N of length n - w + 1 each and
\* _calculate_getis_ord returns V of length n - w + 1; with w > n each
\* returns no window result.
C6_WindowCount ==
    /\ pc = "RN_returned" => Len(R) = Expected(Len(K), w) /\ Len(N) = Expected(Len(K), w)
    /\ pc = "V_returned" => Len(V) = Expected(Len(GC), w) /\ Len(GC) = Len(K)

\* _calculate_getis_ord has returned two windows of size two
C6_Witness ==
    /\ pc = "V_returned"
    /\ w = 2
    /\ Len(K) = 3
    /\ Len(V) = 2

-----------------------------------------------------------------------------
(* Properties of STHS._calculate_getis_ord                                  *)

\* the classification the statistic gi gives a cluster at level sig
FreshResult(gi, sig) ==
    Classified([gi |-> <<>>, significant |-> FALSE, spot |-> None], gi, Critical(sig))

\* C1: in the result V of _calculate_getis_ord, every entry of every window
\* V[i] carries the gi, significant and spot computed from window i alone:
\* a cluster in several overlapping windows has one independent result per
\* window, which the computation of another window leaves unchanged.
C1_ResultsAreWindowLocal ==
    pc = "V_returned" =>
        \A p \in 1..Len(V) : \A q \in 1..Len(V[p]) :
            LET own == GiStar(Map(V[p], LAMBDA r : heap[r]), q, distances).gi
                entry == heap[V[p][q]]
            IN  /\ entry.gi = <<own>>
                /\ entry.significant = FreshResult(own, a).significant
                /\ entry.spot = FreshResult(own, a).spot

\* C2: for every cluster of every window processed with critical value c,
\* right after its classification: gi <= -c gives significant = true and spot
\* Cold, gi >= c gives significant = true and spot Hot, and any other gi
\* gives significant = false and spot None.
C2_ClassificationFollowsGi ==
    Critical(a) # 0 =>
        \A r \in 1..Len(heap) :
            heap[r].gi # <<>> =>
                LET gi == heap[r].gi[1]
                    c == Critical(a) * FP
                IN  /\ gi * 100 <= -c => heap[r].significant /\ heap[r].spot = "Cold"
                    /\ gi * 100 >= c => heap[r].significant /\ heap[r].spot = "Hot"
                    /\ (gi * 100 > -c /\ gi * 100 < c) =>
                          ~heap[r].significant /\ heap[r].spot = None

\* the window being scored is degenerate: one cluster, or equal member counts
Degenerate(Vj) == Len(Vj) = 1 \/ \A q \in 1..Len(Vj) : heap[Vj[q]].x = heap[Vj[1]].x

\* C7: _calculate_getis_ord never ends in a numeric fault on a degenerate
\* window: with exactly one cluster (n - 1 = 0) or with clusters of equal
\* member count (S = 0) the call completes and the window's clusters are
\* classified not significant, with spot None, instead of a division by zero.
C7_DegenerateWindowIsHandled ==
    /\ err # "ZeroDivisionError"
    /\ pc = "V_returned" =>
          \A p \in 1..Len(V) :
              Len(V[p]) > 0 /\ Degenerate(V[p]) =>
                  \A q \in 1..Len(V[p]) :
                      ~heap[V[p][q]].significant /\ heap[V[p][q]].spot = None

\* C8: for every trajectory list and every w, a call with a significance
\* level other than 0.10, 0.05, 0.01 ends in a configuration error and never
\* returns a result V.
C8_InvalidLevelNeverReturns ==
    /\ pc = "V_returned" => a \in {10, 5, 1}
    /\ (pc = "raised" /\ a \notin {0, 10, 5, 1}) =>
          err = "ValueError: 'a' must be 0.10, 0.05 or 0.01."

-----------------------------------------------------------------------------
(* Further properties of ST._create_G                                      *)

\* the point of a partition starting at t1 made for the trajectory tr
MidpointAt(tr, t1) ==
    [x |-> (tr.tpe.x + tr.tps.x) \div 2, y |-> (tr.tpe.y + tr.tps.y) \div 2, t |-> t1]

\* every point of every partition is a trajectory's midpoint at the
\* partition's start time
PointsCarryPartitionStart ==
    \A p \in 1..Len(G) :
        /\ Len(G[p].tpoints) = Len(Meeting(G[p]))
        /\ \A q \in 1..Len(G[p].tpoints) :
              G[p].tpoints[q] = MidpointAt(trajs[Meeting(G[p])[q]], G[p].ts)

\* C18: every point _create_G places in a partition [t1, t2) has the x and y
\* of the trajectory's midpoint and the timestamp t1, never the trajectory's
\* own start or end timestamp, and the input trajectories are left unchanged.
C18_PointsCarryPartitionStart ==
    /\ []PointsCarryPartitionStart
    /\ [][trajs' = trajs]_vars

\* a returned partition holding the point of a trajectory that neither
\* starts nor ends at the partition's start time
C18_Witness ==
    /\ pc = "G_returned"
    /\ \E p \in 1..Len(G) : \E q \in 1..Len(G[p].tpoints) :
          LET tr == trajs[Meeting(G[p])[q]]
          IN  /\ tr.tps.t # G[p].ts
              /\ tr.tpe.t # G[p].ts
              /\ G[p].tpoints[q].t = G[p].ts

\* all trajectories have the span of the first
SameSpan ==
    /\ trajs # <<>>
    /\ \A n \in 1..Len(trajs) :
          trajs[n].tps.t = trajs[1].tps.t /\ trajs[n].tpe.t = trajs[1].tpe.t

\* the partitions that hold a point
Populated == {p \in 1..Len(G) : G[p].tpoints # <<>>}

\* C19 as stated: when all trajectories have the same span, exactly one of
\* the produced partitions is populated, holding the midpoint of every
\* trajectory, and every other partition is empty.
C19_OnePopulatedPartition ==
    pc = "G_returned" /\ SameSpan =>
        /\ Cardinality(Populated) = 1
        /\ \A p \in Populated : Len(G[p].tpoints) = Len(trajs)

\* C19 amended: when all trajectories have the same span [s, e], every
\* produced partition [t1, t2) with s <= t2 holds the midpoint of every
\* trajectory and every partition with s > t2 is empty; when a partition is
\* produced (e > 0) the last one is populated, and more than one can be.
C19_PopulatedFromTheSpanStart ==
    pc = "G_returned" /\ SameSpan =>
        /\ \A p \in 1..Len(G) :
              IF trajs[1].tps.t <= G[p].te
              THEN /\ Len(G[p].tpoints) = Len(trajs)
                   /\ \A q \in 1..Len(trajs) :
                         G[p].tpoints[q] = MidpointAt(trajs[q], G[p].ts)
              ELSE G[p].tpoints = <<>>
        /\ G # <<>> => Len(G) \in Populated
        /\ G # <<>> <=> trajs[1].tpe.t > 0

\* trajectories of one span returned in two populated partitions after an
\* empty one
C19_Witness ==
    /\ pc = "G_returned"
    /\ SameSpan
    /\ Len(trajs) >= 2
    /\ Cardinality(Populated) >= 2
    /\ \E p \in 1..Len(G) : p \notin Populated

\* the partitions that hold the midpoint of the trajectory trajs[n]
Holding(n) ==
    {p \in 1..Len(G) :
        LET idx == Meeting(G[p])
        IN  \E q \in 1..Len(idx) :
                /\ idx[q] = n
                /\ Len(G[p].tpoints) >= q
                /\ G[p].tpoints[q] = MidpointAt(trajs[n], G[p].ts)}

\* C20: for interval > 0 and trajectories with 0 <= start.t <= end.t whose
\* maximum end.t is above 0, _create_G loses no trajectory: the midpoint of
\* every trajectory (of zero-length span or ending at the maximum end.t
\* included) is in at least one partition, and the partitions holding it are
\* consecutive.
C20_NoTrajectoryIsLost ==
    pc = "G_returned" /\ trajs # <<>> /\ MaxEnd > 0 =>
        \A n \in 1..Len(trajs) :
            LET held == Holding(n)
            IN  /\ held # {}
                /\ \A p \in 1..Len(G) :
                      (\E p1 \in held : p1 < p) /\ (\E p2 \in held : p < p2) => p \in held

\* a trajectory of zero-length span at the maximum end.t, which the last
\* partition ends at, is held by the last partition alone, and another
\* trajectory of zero-length span at 0 by the first
C20_Witness ==
    /\ pc = "G_returned"
    /\ Len(G) >= 2
    /\ \E n \in 1..Len(trajs) :
          /\ trajs[n].tps.t = MaxEnd
          /\ G[Len(G)].te = MaxEnd
          /\ Holding(n) = {Len(G)}
    /\ \E n \in 1..Len(trajs) :
          /\ trajs[n].tpe.t = 0
          /\ 1 \in Holding(n)

-----------------------------------------------------------------------------
(* Properties of the GetisCluster objects and of the distance table        *)

\* the partition (1-based) of the GetisCluster object r
PartitionOf(r) == CHOOSE p \in 1..Len(GC) : \E q \in 1..Len(GC[p]) : GC[p][q] = r

\* C12: for every pair of clusters gc1, gc2 of STHS (gc1 = gc2 included) the
\* temporal lag z of the weight is the absolute difference of the partition
\* times of the two clusters; two clusters of one partition have z = 0.
C12_LagIsPartitionTimeDifference ==
    pc \in {"GC_returned", "getis_loop", "getis_inner", "V_returned"} =>
        \A r1 \in 1..Len(heap) : \A r2 \in 1..Len(heap) :
            Lag(heap[r1], heap[r2]) = Abs(G[PartitionOf(r1)].ts - G[PartitionOf(r2)].ts)

\* the cluster the next step of the inner loop scores
NextScored == heap[Window(GC, i, w)[k + 1]]

\* the next step of the inner loop writes Gi* and a classification
AboutToWrite ==
    /\ pc = "getis_inner"
    /\ k < Len(Window(GC, i, w))
    /\ GiStar(Map(Window(GC, i, w), LAMBDA r : heap[r]), k + 1, distances).err = "none"
    /\ Critical(a) # 0

\* C13: each GetisCluster starts with gi unset, significant = false and spot
\* None, and in one run of _calculate_getis_ord its gi, significant and spot
\* are written exactly once: a cluster about to be written was never written
\* before, whatever w and the number of windows it lies in.
C13_WrittenOnce ==
    /\ pc = "GC_returned" =>
          \A r \in 1..Len(heap) :
              heap[r].gi = <<>> /\ ~heap[r].significant /\ heap[r].spot = None
    /\ AboutToWrite =>
          NextScored.gi = <<>> /\ ~NextScored.significant /\ NextScored.spot = None

\* the table holds the distance of the pair under one of the two key orders
Stored(id1, id2) ==
    \/ id1 \in DOMAIN distances /\ id2 \in DOMAIN distances[id1]
    \/ id2 \in DOMAIN distances /\ id1 \in DOMAIN distances[id2]

\* C14: for every window i of _calculate_getis_ord and every ordered pair of
\* clusters (gc1, gc2) of partitions i..i+w-1 the weight lookup finds a
\* distance under the key (gc1.id, gc2.id) or under (gc2.id, gc1.id); it
\* never fails with the key missing in both orders.
C14_LookupFindsADistance ==
    /\ err # "KeyError"
    /\ pc \in {"getis_loop", "getis_inner"} =>
          \A p \in (i + 1)..NumWindows(Len(GC), w) :
              LET Vj == Window(GC, p - 1, w)
              IN  \A q1 \in 1..Len(Vj) : \A q2 \in 1..Len(Vj) :
                      /\ Stored(heap[Vj[q1]].id, heap[Vj[q2]].id)
                      /\ Weight(Lag(heap[Vj[q1]], heap[Vj[q2]]), heap[Vj[q1]], heap[Vj[q2]],
                                distances) # KeyError

\* a cluster of a window has been scored with a weight found only under
\* the reversed key, the other cluster being of an earlier partition
C14_Witness ==
    /\ pc = "getis_inner"
    /\ LET Vj == Window(GC, i, w)
       IN  \E q1 \in 1..Len(Vj) : \E q2 \in 1..Len(Vj) :
               /\ q2 <= k
               /\ PartitionOf(Vj[q1]) < PartitionOf(Vj[q2])
               /\ heap[Vj[q1]].id \notin DOMAIN distances[heap[Vj[q2]].id]
               /\ heap[Vj[q2]].id \in DOMAIN distances[heap[Vj[q1]].id]
               /\ heap[Vj[q2]].gi # <<>>

\* the GetisCluster object with the cluster id cid
ObjectOf(cid) == CHOOSE r \in 1..Len(heap) : heap[r].id = cid

\* C15: the table built by _calculate_distance has an inner table for every
\* cluster id and holds an entry keyed (a, b) only when a is in a partition
\* i and b in a partition j with i <= j <= i + w: no entry goes to a cluster
\* of an earlier partition or of a partition more than w ahead.
C15_DistanceTableShape ==
    pc \in {"getis_loop", "getis_inner", "V_returned"} =>
        /\ DOMAIN distances = {heap[r].id : r \in 1..Len(heap)}
        /\ \A ida \in DOMAIN distances : \A idb \in DOMAIN distances[ida] :
              LET pa == PartitionOf(ObjectOf(ida))
                  pb == PartitionOf(ObjectOf(idb))
              IN  pa <= pb /\ pb <= pa + w

\* a table with an entry from a cluster to one of the next partition and
\* none backwards, for clusters of three partitions
C15_Witness ==
    /\ pc = "V_returned"
    /\ \E ra \in 1..Len(heap) : \E rb \in 1..Len(heap) : \E rc \in 1..Len(heap) :
          /\ PartitionOf(ra) + 1 = PartitionOf(rb)
          /\ PartitionOf(rb) + 1 = PartitionOf(rc)
          /\ heap[rb].id \in DOMAIN distances[heap[ra].id]
          /\ heap[ra].id \notin DOMAIN distances[heap[rb].id]
          /\ heap[rc].id \notin DOMAIN distances[heap[ra].id]

-----------------------------------------------------------------------------
(* Properties of the windows                                               *)

\* the lists lo, ..., hi (1-based) of lists, joined in that order
RECURSIVE Joined(_, _, _)
Joined(lists, lo, hi) == IF lo > hi THEN <<>> ELSE Joined(lists, lo, hi - 1) \o lists[hi]

\* C17: for every window index i in 0..n-w the window of _v_clustering and
\* of _calculate_getis_ord is made of exactly the clusters of partitions
\* i, ..., i+w-1, flattened in partition order: consecutive windows advance
\* by one partition and share w-1 of them, and no window holds fewer than w
\* partitions.
C17_WindowsSlideByOne ==
    /\ \A p \in 1..Len(V) :
          /\ p + w - 1 <= Len(GC)
          /\ V[p] = Joined(GC, p, p + w - 1)
    /\ \A p \in 1..Len(R) :
          /\ p + w - 1 <= Len(K)
          /\ LET Vj == Joined(K, p, p + w - 1)
                 Both == R[p] \o N[p]
             IN  /\ Len(Both) = Len(Vj)
                 /\ Len(vlabels_[p]) = Len(Vj)
                 /\ {Both[q].id : q \in 1..Len(Both)} = 0..(Len(Vj) - 1)
                 /\ \A q \in 1..Len(Both) :
                       /\ Both[q].cpoints = Vj[Both[q].id + 1].cpoints
                       /\ Both[q].t = Vj[Both[q].id + 1].t
                 /\ \A q \in 1..(Len(R[p]) - 1) : R[p][q].id < R[p][q + 1].id
                 /\ \A q \in 1..(Len(N[p]) - 1) : N[p][q].id < N[p][q + 1].id

\* _v_clustering has returned two windows of two partitions each, which
\* share the clusters of the second of three non-empty partitions
C17_Witness ==
    /\ pc = "RN_returned"
    /\ w = 2
    /\ Len(K) = 3
    /\ Len(R) = 2
    /\ \A p \in 1..3 : K[p] # <<>>
    /\ Len(R[1]) + Len(N[1]) = Len(K[1]) + Len(K[2])
    /\ Len(R[2]) + Len(N[2]) = Len(K[2]) + Len(K[3])
    /\ Len(K[1]) # Len(K[3])

-----------------------------------------------------------------------------
(* Properties of the calls of the clustering capability and of the ids     *)

\* the next step of _g_clustering handles a partition with no point
AtEmptyPartition ==
    pc = "g_clustering_loop" /\ j < Len(G) /\ G[j + 1].tpoints = <<>>

\* the next step of _v_clustering handles a window with no cluster
AtEmptyWindow ==
    /\ pc = "v_clustering_loop"
    /\ i < Len(K) - w + 1
    /\ \A p \in (i + 1)..(i + w) : K[p] = <<>>

\* K has one list per partition, the empty one for a partition with no point
EmptyStaysEmpty ==
    pc = "K_returned" =>
        /\ Len(K) = Len(G)
        /\ \A p \in 1..Len(G) : G[p].tpoints = <<>> => K[p] = <<>>

\* C11: the clustering capability is never invoked on empty input:
\* _g_clustering appends an empty cluster list for a partition with no point
\* without calling fit (so K has the length of G, index for index), and
\* _v_clustering appends empty R[i] and N[i] for a window whose flattened
\* cluster list is empty without calling fit.
C11_NoFitOnEmptyInput ==
    /\ []EmptyStaysEmpty
    /\ [][/\ AtEmptyPartition => fits' = fits /\ K' = Append(K, <<>>)
          /\ AtEmptyWindow => /\ fits' = fits
                              /\ R' = Append(R, <<>>)
                              /\ N' = Append(N, <<>>)]_vars

\* _v_clustering has returned after an empty window and a window with
\* clusters, made from an empty partition between two partitions with points
C11_Witness ==
    /\ pc = "RN_returned"
    /\ w = 1
    /\ Len(K) = 3
    /\ G[2].tpoints = <<>> /\ K[2] = <<>>
    /\ K[1] # <<>> /\ K[3] # <<>>
    /\ R[2] = <<>> /\ N[2] = <<>>
    /\ Len(R[1]) + Len(N[1]) > 0
    /\ fits = 4

\* C16: in one call of _g_clustering the ids come from a counter that starts
\* at 0 and grows by one per created cluster across all partitions: they are
\* pairwise distinct over the whole of K and increase in partition order and,
\* within a partition, in creation order; a second call starts again at 0.
C16_IdsCountFromZero ==
    LET all == Flatten(K)
    IN  /\ \A n \in 1..Len(all) : all[n].id = n - 1
        /\ \A n1 \in 1..Len(all) : \A n2 \in 1..Len(all) :
              n1 # n2 => all[n1].id # all[n2].id
        /\ pc \in {"g_clustering_loop", "K_returned"} => id = Len(all)

\* the second call of _g_clustering has returned three clusters or more, of
\* two partitions or more
C16_Witness ==
    /\ pc = "K_returned"
    /\ fits = 2 * FitCalls(G)
    /\ Len(Flatten(K)) >= 3
    /\ \E p1 \in 1..Len(K) : \E p2 \in 1..Len(K) :
          p1 < p2 /\ Len(K[p1]) >= 2 /\ K[p2] # <<>>

=============================================================================
